---- MODULE Spec2Model ----
(***************************************************************************)
(* A model of datp: TOTP code computation (src/src/lib.rs) and its C      *)
(* entry points (src/src/c_api.rs).                                        *)
(*                                                                         *)
(* Representation.  A Rust &str is a sequence of one-character strings.    *)
(* A u64 is four 16-bit limbs, most significant first, so that the 64-bit  *)
(* width of `unix_time - t0` and of the counter is kept exactly.  A u32 is *)
(* two 16-bit halves <<hi, lo>>.  A byte is a number in 0..255.            *)
(* HMAC-SHA1 is an opaque keyed function: the variable hmac_sha1 is one    *)
(* arbitrary function from <<key, message>> to a 20-byte digest, drawn     *)
(* when the behaviour starts and never changed.                            *)
(***************************************************************************)
EXTENDS Integers, Sequences, FiniteSets, TLC

VARIABLES overflow_checks, hmac_sha1, prev, last

vars == <<overflow_checks, hmac_sha1, prev, last>>

\* A function on 1..n as a sequence value (evaluated once, element by element).
AsSeq(f) == SubSeq(f, 1, Len(f))

(***************************************************************************)
(* u64 arithmetic on limbs                                                 *)
(***************************************************************************)
Limb == 2^16

HalfLimb == 2^15

U64Zero == <<0, 0, 0, 0>>

U64Max == <<Limb - 1, Limb - 1, Limb - 1, Limb - 1>>

\* The u64 whose value is n, for 0 <= n < 2^31.
U64Of(n) == <<0, 0, n \div Limb, n % Limb>>

\* a < b on u64: the most significant differing limb decides.
U64Lt(a, b) ==
    IF a[1] # b[1] THEN a[1] < b[1]
    ELSE IF a[2] # b[2] THEN a[2] < b[2]
    ELSE IF a[3] # b[3] THEN a[3] < b[3]
    ELSE a[4] < b[4]

\* a - b modulo 2^64 (u64::wrapping_sub, what `-` compiles to without
\* overflow checks).
U64WrappingSub(a, b) ==
    LET d4 == a[4] - b[4]
        w4 == IF d4 < 0 THEN 1 ELSE 0
        d3 == a[3] - b[3] - w4
        w3 == IF d3 < 0 THEN 1 ELSE 0
        d2 == a[2] - b[2] - w3
        w2 == IF d2 < 0 THEN 1 ELSE 0
        d1 == a[1] - b[1] - w2
    IN  <<d1 % Limb, d2 % Limb, d3 % Limb, d4 % Limb>>

\* Bit i of a (bit 0 is the least significant).
U64Bit(a, i) == (a[4 - (i \div 16)] \div (2^(i % 16))) % 2

\* (2 * a + bit) modulo 2^64.
U64Shl1(a, bit) ==
    << (2 * a[1] + a[2] \div HalfLimb) % Limb,
       (2 * a[2] + a[3] \div HalfLimb) % Limb,
       (2 * a[3] + a[4] \div HalfLimb) % Limb,
       (2 * a[4] + bit) % Limb >>

\* One step of binary long division on the pair s = <<quotient, remainder>>:
\* shift in bit i of n, subtract d when it fits.
U64DivStep(n, d, i, s) ==
    LET carry == s[2][1] \div HalfLimb
        r2    == U64Shl1(s[2], U64Bit(n, i))
    IN  IF carry = 1 \/ ~U64Lt(r2, d)
        THEN <<U64Shl1(s[1], 1), U64WrappingSub(r2, d)>>
        ELSE <<U64Shl1(s[1], 0), r2>>

RECURSIVE U64DivLoop(_, _, _, _)
U64DivLoop(n, d, i, s) ==
    IF i < 0 THEN s[1]
    ELSE LET t == U64DivStep(n, d, i, s)
         IN  IF t[1][4] >= 0 THEN U64DivLoop(n, d, i - 1, t) ELSE t[1]

\* Short division of n by a one-limb divisor 0 < d < 2^15, limb by limb from
\* the top (every intermediate r * 2^16 + limb stays below 2^31).
U64DivShort(n, d) ==
    LET c1 == n[1]
        c2 == (c1 % d) * Limb + n[2]
        c3 == (c2 % d) * Limb + n[3]
        c4 == (c3 % d) * Limb + n[4]
    IN  <<c1 \div d, c2 \div d, c3 \div d, c4 \div d>>

\* Truncating u64 division n / d, d # 0.
U64Div(n, d) ==
    IF d[1] = 0 /\ d[2] = 0 /\ d[3] = 0 /\ d[4] < HalfLimb
    THEN U64DivShort(n, d[4])
    ELSE U64DivLoop(n, d, 63, <<U64Zero, U64Zero>>)

\* u64::to_be_bytes: the 8 bytes of c, most significant first.
to_be_bytes(c) ==
    << c[1] \div 256, c[1] % 256, c[2] \div 256, c[2] % 256,
       c[3] \div 256, c[3] % 256, c[4] \div 256, c[4] % 256 >>

(***************************************************************************)
(* base32::decode(Alphabet::Rfc4648 { padding: false }, text)              *)
(***************************************************************************)
Rfc4648Alphabet ==
    << "A", "B", "C", "D", "E", "F", "G", "H", "I", "J", "K", "L", "M",
       "N", "O", "P", "Q", "R", "S", "T", "U", "V", "W", "X", "Y", "Z",
       "2", "3", "4", "5", "6", "7" >>

\* The 5-bit value of a character, -1 for a character outside the alphabet.
CharValue(c) ==
    IF \E i \in 1..32 : Rfc4648Alphabet[i] = c
    THEN (CHOOSE i \in 1..32 : Rfc4648Alphabet[i] = c) - 1
    ELSE -1

\* Bit k (0 = first) of the stream of 5-bit values vals.
StreamBit(vals, k) == (vals[(k \div 5) + 1] \div 2^(4 - (k % 5))) % 2

\* Byte j (1 = first) of the stream: bits 8(j-1) .. 8(j-1)+7, first bit highest.
StreamByte(vals, j) ==
    LET b(i) == StreamBit(vals, 8 * (j - 1) + i)
    IN  128 * b(0) + 64 * b(1) + 32 * b(2) + 16 * b(3)
          + 8 * b(4) + 4 * b(5) + 2 * b(6) + b(7)

\* The bytes of a text whose characters all have a value: Len * 5 / 8 of them.
Base32Bytes(vals) == [j \in 1..((Len(vals) * 5) \div 8) |-> StreamByte(vals, j)]

None == [some |-> FALSE, val |-> <<>>]

Some(v) == [some |-> TRUE, val |-> v]

\* decode_values with `.unwrap_or_default()` in place of `?`: an invalid text
\* counts as the empty key.
decode_values_or_default(vals) ==
    IF \E i \in 1..Len(vals) : vals[i] = -1
    THEN Some(<<>>)
    ELSE Some(AsSeq(Base32Bytes(vals)))

\* None when a character is outside the alphabet, else Some(bytes).
decode_values(vals) ==
    IF \E i \in 1..Len(vals) : vals[i] = -1
    THEN None
    ELSE Some(AsSeq(Base32Bytes(vals)))

decode(text) == decode_values(AsSeq([i \in 1..Len(text) |-> CharValue(text[i])]))

(***************************************************************************)
(* totp_raw                                                                *)
(***************************************************************************)
\* The result of a call that did not reach the MAC, or panicked after it.
NoCode(kind) ==
    [kind |-> kind, code |-> 0, key |-> <<>>, counter_bytes |-> <<>>,
     hash |-> <<>>, offset |-> 0, value |-> <<0, 0>>]

\* `unix_time - t0`: with overflow checks (the dev profile) an underflow
\* panics, without them (the release profile) it wraps modulo 2^64.
checked_sub(a, b, checks) ==
    IF U64Lt(a, b) /\ checks
    THEN [kind |-> "Panic", val |-> U64Zero]
    ELSE [kind |-> "Ok", val |-> U64WrappingSub(a, b)]

\* counter_of without the epoch start: `unix_time / step`.
counter_of_no_epoch(step, t0, unix_time, checks) ==
    IF step = U64Zero THEN [kind |-> "Panic", val |-> U64Zero]
    ELSE [kind |-> "Ok", val |-> U64Div(unix_time, step)]

\* counter_of with the operands of the division swapped:
\* `step / (unix_time - t0)`.
counter_of_swapped(step, t0, unix_time, checks) ==
    LET d == checked_sub(unix_time, t0, checks)
    IN  IF d.kind = "Panic" THEN d
        ELSE IF d.val = U64Zero THEN [kind |-> "Panic", val |-> U64Zero]
        ELSE [kind |-> "Ok", val |-> U64Div(step, d.val)]

\* `(unix_time - t0) / step`: a zero divisor panics in every profile.
counter_of(step, t0, unix_time, checks) ==
    LET d == checked_sub(unix_time, t0, checks)
    IN  IF d.kind = "Panic" THEN d
        ELSE IF step = U64Zero THEN [kind |-> "Panic", val |-> U64Zero]
        ELSE [kind |-> "Ok", val |-> U64Div(d.val, step)]

\* truncation_offset with the mask 0x1f.
truncation_offset_5_bits(hash) == hash[20] % 32

\* `(hash[19] & 0xf) as usize` (sequences are 1-based: hash[19] is the 20th).
truncation_offset(hash) == hash[20] % 16

\* `&hash[offset..offset + 4]`, the 0-based window as a 1-based subsequence.
code_bytes_of(hash, offset) == SubSeq(hash, offset + 1, offset + 4)

\* `(b0 as u32 & 0x7f) << 24 | b1 << 16 | b2 << 8 | b3` as a u32 in two
\* 16-bit halves <<hi, lo>>; the shifted fields are disjoint, so | adds.
truncated_value(cb) == <<(cb[1] % 128) * 256 + cb[2], cb[3] * 256 + cb[4]>>

\* v % m for a u32 v = <<hi, lo>> and 0 < m <= 2^22, without leaving 31 bits.
U32Mod(v, m) == ((((((v[1] * 256) % m) * 256) % m) + v[2]) % m)

\* code_of without the reduction.
code_of_unreduced(value) == value[1] * Limb + value[2]

\* `code %= 1_000_000`
code_of(value) == U32Mod(value, 1000000)

\* Dynamic truncation of the digest the MAC returned.
totp_truncate(key, counter_bytes, hash) ==
    LET offset == truncation_offset(hash)
    IN  IF offset + 4 > Len(hash)
        THEN [NoCode("Panic") EXCEPT !.key = key, !.counter_bytes = counter_bytes,
                                     !.hash = hash, !.offset = offset]
        ELSE LET value == truncated_value(code_bytes_of(hash, offset))
             IN  [kind |-> "Some", code |-> code_of(value), key |-> key,
                  counter_bytes |-> counter_bytes, hash |-> hash,
                  offset |-> offset, value |-> value]

\* The call up to the MAC: None, Panic, or the MAC's key and message ("Mac").
mac_input(secret_base32, step, t0, unix_time, checks) ==
    LET secret == decode(secret_base32)
    IN  IF ~secret.some THEN NoCode("None")
        ELSE LET counter == counter_of(step, t0, unix_time, checks)
             IN  IF counter.kind = "Panic" THEN NoCode("Panic")
                 ELSE [NoCode("Mac") EXCEPT !.key = secret.val,
                          !.counter_bytes = to_be_bytes(counter.val)]

\* The rest of the call: `mac.update(&counter_bytes)`, `finalize()`, and the
\* truncation of the digest.  HmacSha1::new_from_slice accepts a key of every
\* length, so `.ok()?` never returns.  mac is HMAC-SHA1 as a function of
\* <<key, message>>.
totp_raw_with(m, mac) ==
    IF m.kind # "Mac" THEN m
    ELSE totp_truncate(m.key, m.counter_bytes, mac[<<m.key, m.counter_bytes>>])

totp_raw(secret_base32, step, t0, unix_time, checks, mac) ==
    totp_raw_with(mac_input(secret_base32, step, t0, unix_time, checks), mac)

(***************************************************************************)
(* totp_raw_now and the C entry points for codes                           *)
(***************************************************************************)
\* SystemTime::now().duration_since(UNIX_EPOCH): the seconds since the epoch,
\* or an error when the clock stands before the epoch.
ClockErr == [ok |-> FALSE, secs |-> U64Zero]

ClockAt(secs) == [ok |-> TRUE, secs |-> secs]

\* `.ok()?` on the clock reading, then totp_raw at that time.
totp_raw_now(secret_base32, step, t0, clock, checks, mac) ==
    IF ~clock.ok THEN NoCode("None")
    ELSE totp_raw(secret_base32, step, t0, clock.secs, checks, mac)

\* A C string pointer: null, or the address of a NUL-terminated text.
NULL == [null |-> TRUE, text |-> <<>>]

CStrPtr(text) == [null |-> FALSE, text |-> text]

\* A byte that is not valid UTF-8, and the character that replaces it.
BadUtf8 == "\\xFF"

Replacement == "U+FFFD"

\* CStr::to_string_lossy: invalid UTF-8 becomes U+FFFD.
to_string_lossy(text) ==
    AsSeq([i \in 1..Len(text) |->
              IF text[i] = BadUtf8 THEN Replacement ELSE text[i]])

\* What an extern "C" function hands back for an Option<u32>: a panic cannot
\* unwind out of an extern "C" function, the process aborts.
unwrap_or_0(r) ==
    IF r.kind = "Panic" THEN [kind |-> "Abort", value |-> 0, inner |-> r]
    ELSE [kind |-> "Return", value |-> IF r.kind = "Some" THEN r.code ELSE 0,
          inner |-> r]

totp_raw_c(secret, step, t0, unix_time, checks, mac) ==
    IF secret.null
    THEN [kind |-> "Return", value |-> 0, inner |-> NoCode("NotCalled")]
    ELSE unwrap_or_0(totp_raw(to_string_lossy(secret.text), step, t0,
                              unix_time, checks, mac))

totp_raw_now_c(secret, step, t0, clock, checks, mac) ==
    IF secret.null
    THEN [kind |-> "Return", value |-> 0, inner |-> NoCode("NotCalled")]
    ELSE unwrap_or_0(totp_raw_now(to_string_lossy(secret.text), step, t0,
                                  clock, checks, mac))

(***************************************************************************)
(* totp_qr_svg and totp_qr_svg_c                                           *)
(***************************************************************************)
\* The characters of the format string of the otpauth URL outside its four
\* placeholders: "otpauth://totp/" ":" "?secret=" "&issuer="
\* "&algorithm=SHA1&digits=6&period=30".
UrlFixedLen == 66

\* The length of the URL: issuer, account name, secret, issuer again.
url_len(secret_base32, config) ==
    UrlFixedLen + Len(config.issuer) + Len(config.account_name)
        + Len(secret_base32) + Len(config.issuer)

\* The bytes the largest symbol (version 40) holds at level M in byte mode.
\* The payloads drawn here are either under 100 characters or longer than
\* any mode of a version-40 symbol holds, so the mode chosen does not matter.
QrByteCapacity == 2331

\* QrCode::new(data): level M, the smallest version that fits, an error when
\* none does.
QrCode_new(len) ==
    IF len > QrByteCapacity
    THEN [ok |-> FALSE, version |-> [tag |-> "Auto", n |-> 0], ec_level |-> "M"]
    ELSE [ok |-> TRUE, version |-> [tag |-> "Auto", n |-> 0], ec_level |-> "M"]

Normal(n) == [tag |-> "Normal", n |-> n]

\* totp_qr_svg: `.expect(..)` panics when the symbol cannot be built;
\* otherwise the SVG of the symbol with the colors and size of the config.
totp_qr_svg(secret_base32, config) ==
    LET code == QrCode_new(url_len(secret_base32, config))
    IN  IF ~code.ok
        THEN [kind |-> "Panic", symbol |-> code, dark_color |-> <<>>,
              light_color |-> <<>>, min_dimension |-> 0]
        ELSE [kind |-> "Svg", symbol |-> code,
              dark_color |-> config.dark_color,
              light_color |-> config.light_color,
              min_dimension |-> config.min_dimension]

\* `match cfg.version { 0 => Normal(1), .., 4 => Normal(5), _ => Normal(1) }`
version_of(v) == IF v \in 0..4 THEN Normal(v + 1) ELSE Normal(1)

\* `match cfg.ec_level { 0 => L, 1 => M, 2 => Q, 3 => H, _ => M }`
ec_level_of(e) ==
    CASE e = 0 -> "L" [] e = 1 -> "M" [] e = 2 -> "Q" [] e = 3 -> "H"
      [] OTHER -> "M"

Totp == <<"t", "o", "t", "p">>

\* The TotpQrConfig that totp_qr_svg_c builds from the C struct and the two
\* color texts.
qr_config_of(cfg, dark, light) ==
    [account_name |-> Totp, issuer |-> Totp, dark_color |-> dark,
     light_color |-> light, min_dimension |-> cfg.min_dimension,
     version |-> version_of(cfg.version),
     ec_level |-> ec_level_of(cfg.ec_level)]

NoConfig ==
    [account_name |-> <<>>, issuer |-> <<>>, dark_color |-> <<>>,
     light_color |-> <<>>, min_dimension |-> 0, version |-> Normal(1),
     ec_level |-> "M"]

NoSvg ==
    [kind |-> "NotCalled",
     symbol |-> [ok |-> FALSE, version |-> Normal(1), ec_level |-> "M"],
     dark_color |-> <<>>, light_color |-> <<>>, min_dimension |-> 0]

\* What CStr::from_ptr reads at an address that holds no C string.
Garbage == <<"?">>

\* totp_qr_svg_c.  Only secret and config are tested for null; CStr::from_ptr
\* on a null color pointer is undefined behaviour, and ub is what the build
\* makes of it: the read faults ("fault"), or it yields some text ("read").
totp_qr_svg_c(secret, config, ub) ==
    IF secret.null \/ config.null
    THEN [kind |-> "Null", qr_config |-> NoConfig, svg |-> NoSvg]
    ELSE IF (config.dark_color.null \/ config.light_color.null) /\ ub = "fault"
    THEN [kind |-> "Fault", qr_config |-> NoConfig, svg |-> NoSvg]
    ELSE LET dark == IF config.dark_color.null THEN Garbage
                     ELSE to_string_lossy(config.dark_color.text)
             light == IF config.light_color.null THEN Garbage
                      ELSE to_string_lossy(config.light_color.text)
             qr_config == qr_config_of(config, dark, light)
             svg == totp_qr_svg(to_string_lossy(secret.text), qr_config)
         IN  [kind |-> IF svg.kind = "Panic" THEN "Abort" ELSE "NonNull",
              qr_config |-> qr_config, svg |-> svg]

(***************************************************************************)
(* Inputs                                                                  *)
(***************************************************************************)
\* Times cover the step windows 0..MaxWindow of a 30 s step.
MaxWindow == 1

\* The length of a secret too long for any QR symbol.
LongSecretLen == 6000

\* "JBSWY3DPEHPK3PXP", the secret of the tests.
KnownSecret ==
    << "J", "B", "S", "W", "Y", "3", "D", "P",
       "E", "H", "P", "K", "3", "P", "X", "P" >>

\* "invalid!!secret", the secret of test_totp_invalid_secret.
InvalidSecret ==
    << "i", "n", "v", "a", "l", "i", "d", "!", "!",
       "s", "e", "c", "r", "e", "t" >>

\* A secret whose only character outside the alphabet is its last one.
BadTailSecret == SubSeq(KnownSecret, 1, 15) \o <<"1">>

\* A C string that is not UTF-8.
NotUtf8Secret == SubSeq(KnownSecret, 1, 15) \o <<BadUtf8>>

LongSecret == AsSeq([i \in 1..LongSecretLen |-> "A"])

Secrets == {KnownSecret, InvalidSecret, BadTailSecret}

SecretPtrs == {NULL, CStrPtr(KnownSecret), CStrPtr(NotUtf8Secret)}

Steps == {U64Of(0), U64Of(30), U64Of(60)}

EpochStarts == {U64Of(0), U64Of(1)}

\* The first and the last second of each window.
Times == {U64Of(30 * w + r) : w \in 0..MaxWindow, r \in {0, 29}}

Clocks == {ClockErr} \cup {ClockAt(t) : t \in Times}

\* Every <<key, message>> a call over these inputs hands to the MAC.
MacQueries ==
    LET Reached ==
          {mac_input(secret, step, t0, unix_time, checks) :
              secret \in Secrets, step \in Steps, t0 \in EpochStarts,
              unix_time \in Times, checks \in BOOLEAN}
    IN  {<<m.key, m.counter_bytes>> : m \in {r \in Reached : r.kind = "Mac"}}

\* The digest of RFC 4226's worked example, and the all-ones digest.
Rfc4226Digest ==
    << 31, 134, 152, 105, 14, 2, 202, 22, 97, 133,
       80, 239, 127, 25, 218, 142, 148, 91, 85, 90 >>

OnesDigest == AsSeq([i \in 1..20 |-> 255])

SampleDigests == {Rfc4226Digest, OnesDigest}

\* A 20-byte digest with low nibble o and high nibble hi in its last byte,
\* the bytes w at offsets o..o+3, and fill elsewhere.
DigestWith(o, hi, w, fill) ==
    AsSeq([i \in 1..20 |-> IF i = 20 THEN 16 * hi + o
                           ELSE IF i - o \in 1..4 THEN w[i - o]
                           ELSE fill])

\* Every offset, both extremes of the high nibble, and windows over the
\* bytes where the sign bit and the byte boundaries lie.
DigestFamily ==
    {DigestWith(o, hi, <<b0, b1, b2, b3>>, fill) :
        o \in 0..15, hi \in {0, 15}, b0 \in {0, 127, 128, 255},
        b1 \in {0, 255}, b2 \in {0, 255}, b3 \in {0, 255}, fill \in {0, 255}}

Colors == {NULL, CStrPtr(<<"#", "0", "0", "0">>)}

NullConfig ==
    [null |-> TRUE, dark_color |-> NULL, light_color |-> NULL,
     min_dimension |-> 0, version |-> 0, ec_level |-> 0]

\* TotpQrConfigC values behind a non-null pointer: version and ec_level are
\* u8 fields.
ConfigCs ==
    {[null |-> FALSE, dark_color |-> d, light_color |-> l,
      min_dimension |-> 250, version |-> v, ec_level |-> e] :
        d \in Colors, l \in Colors, v \in {0, 1, 4, 5, 255},
        e \in {0, 1, 2, 3, 4}}

Configs ==
    {[account_name |-> <<"u">>, issuer |-> <<"a", "p", "p">>,
      dark_color |-> <<"#", "0", "0", "0">>,
      light_color |-> <<"#", "f", "f", "f">>, min_dimension |-> 250,
      version |-> Normal(v), ec_level |-> e] :
        v \in {1, 5}, e \in {"L", "H"}}

(***************************************************************************)
(* State.  The library keeps none: the variables are the build profile,    *)
(* HMAC-SHA1, and what a caller observes, the last call with its result    *)
(* (and, where two calls are compared, the one before).                    *)
(***************************************************************************)
Idle == [op |-> "idle"]

Init ==
    /\ overflow_checks \in BOOLEAN
    /\ hmac_sha1 \in [MacQueries -> SampleDigests]
    /\ prev = Idle
    /\ last = Idle

Call_totp_raw(secret, step, t0, unix_time) ==
    last' = [op |-> "totp_raw", secret |-> secret, step |-> step, t0 |-> t0,
             unix_time |-> unix_time,
             ret |-> totp_raw(secret, step, t0, unix_time, overflow_checks,
                              hmac_sha1)]

Call_totp_raw_now(secret, step, t0, clock) ==
    last' = [op |-> "totp_raw_now", secret |-> secret, step |-> step,
             t0 |-> t0, clock |-> clock,
             ret |-> totp_raw_now(secret, step, t0, clock, overflow_checks,
                                  hmac_sha1)]

Call_totp_raw_c(secret, step, t0, unix_time) ==
    last' = [op |-> "totp_raw_c", secret |-> secret, step |-> step, t0 |-> t0,
             unix_time |-> unix_time,
             ret |-> totp_raw_c(secret, step, t0, unix_time, overflow_checks,
                                hmac_sha1)]

Call_totp_raw_now_c(secret, step, t0, clock) ==
    last' = [op |-> "totp_raw_now_c", secret |-> secret, step |-> step,
             t0 |-> t0, clock |-> clock,
             ret |-> totp_raw_now_c(secret, step, t0, clock, overflow_checks,
                                    hmac_sha1)]

Call_totp_qr_svg(secret, config) ==
    last' = [op |-> "totp_qr_svg", secret |-> secret, config |-> config,
             ret |-> totp_qr_svg(secret, config)]

Call_totp_qr_svg_c(secret, config, ub) ==
    last' = [op |-> "totp_qr_svg_c", secret |-> secret, config |-> config,
             ret |-> totp_qr_svg_c(secret, config, ub)]

\* A caller makes one call at a time: it calls, takes the result, and drops
\* it before the next call.
TotpRaw ==
    /\ last = Idle
    /\ \E secret \in Secrets, step \in Steps, t0 \in EpochStarts,
         unix_time \in Times : Call_totp_raw(secret, step, t0, unix_time)
    /\ UNCHANGED <<overflow_checks, hmac_sha1, prev>>

TotpRawNow ==
    /\ last = Idle
    /\ \E secret \in Secrets, step \in Steps, t0 \in EpochStarts,
         clock \in Clocks : Call_totp_raw_now(secret, step, t0, clock)
    /\ UNCHANGED <<overflow_checks, hmac_sha1, prev>>

TotpRawC ==
    /\ last = Idle
    /\ \E secret \in SecretPtrs, step \in Steps, t0 \in EpochStarts,
         unix_time \in Times : Call_totp_raw_c(secret, step, t0, unix_time)
    /\ UNCHANGED <<overflow_checks, hmac_sha1, prev>>

TotpRawNowC ==
    /\ last = Idle
    /\ \E secret \in SecretPtrs, step \in Steps, t0 \in EpochStarts,
         clock \in Clocks : Call_totp_raw_now_c(secret, step, t0, clock)
    /\ UNCHANGED <<overflow_checks, hmac_sha1, prev>>

TotpQrSvg ==
    /\ last = Idle
    /\ \E secret \in {KnownSecret, LongSecret}, config \in Configs :
         Call_totp_qr_svg(secret, config)
    /\ UNCHANGED <<overflow_checks, hmac_sha1, prev>>

TotpQrSvgC ==
    /\ last = Idle
    /\ \E secret \in {NULL, CStrPtr(KnownSecret), CStrPtr(LongSecret)},
         config \in ConfigCs \cup {NullConfig}, ub \in {"fault", "read"} :
         Call_totp_qr_svg_c(secret, config, ub)
    /\ UNCHANGED <<overflow_checks, hmac_sha1, prev>>

Drop ==
    /\ last # Idle
    /\ last' = Idle
    /\ prev' = Idle
    /\ UNCHANGED <<overflow_checks, hmac_sha1>>

Next ==
    \/ TotpRaw
    \/ TotpRawNow
    \/ TotpRawC
    \/ TotpRawNowC
    \/ TotpQrSvg
    \/ TotpQrSvgC
    \/ Drop

Spec == Init /\ [][Next]_vars

(***************************************************************************)
(* Two calls of totp_raw in a row with the known secret and a positive     *)
(* step, both results kept: prev is the call before last.                  *)
(***************************************************************************)
TotpRawAgain ==
    /\ prev = Idle
    /\ \E step \in Steps \ {U64Zero}, t0 \in EpochStarts, unix_time \in Times :
         Call_totp_raw(KnownSecret, step, t0, unix_time)
    /\ prev' = last
    /\ UNCHANGED <<overflow_checks, hmac_sha1>>

NextPair == TotpRawAgain \/ Drop

SpecPair == Init /\ [][NextPair]_vars

(***************************************************************************)
(* One call of totp_raw whose MAC answers with a digest of DigestFamily.   *)
(***************************************************************************)
InitDigest ==
    /\ overflow_checks \in BOOLEAN
    /\ hmac_sha1 \in {[q \in MacQueries |-> h] : h \in DigestFamily}
    /\ prev = Idle
    /\ last = Idle

TotpRawDigest ==
    /\ last = Idle
    /\ \E step \in Steps \ {U64Zero}, unix_time \in Times :
         Call_totp_raw(KnownSecret, step, U64Zero, unix_time)
    /\ UNCHANGED <<overflow_checks, hmac_sha1, prev>>

NextDigest == TotpRawDigest \/ Drop

SpecDigest == InitDigest /\ [][NextDigest]_vars

(***************************************************************************)
(* Claims                                                                  *)
(***************************************************************************)
Rfc4648Chars == {Rfc4648Alphabet[i] : i \in 1..32}

AllInAlphabet(text) == \A i \in 1..Len(text) : text[i] \in Rfc4648Chars

\* The value of a u64 below 2^31, as a number.
NatOf(u) == u[3] * Limb + u[4]

\* The 8 big-endian bytes of a number below 2^31.
BigEndian8(n) ==
    <<0, 0, 0, 0, (n \div 2^24) % 256, (n \div 2^16) % 256,
      (n \div 2^8) % 256, n % 256>>

\* floor((unix_time - t0) / step) of a recorded call, as a number.
WindowOf(call) ==
    (NatOf(call.unix_time) - NatOf(call.t0)) \div NatOf(call.step)

\* C1: with a secret that decodes, totp_raw with step = 0 returns None.
C1_StepZeroIsNone ==
    (last.op = "totp_raw" /\ AllInAlphabet(last.secret) /\ last.step = U64Zero)
        => last.ret.kind = "None"

\* C2: with a secret that decodes and step > 0, totp_raw with unix_time < t0
\* returns None: it neither panics nor computes a code from a wrapped
\* difference.
C2_UnderflowIsNone ==
    (/\ last.op = "totp_raw"
     /\ AllInAlphabet(last.secret)
     /\ last.step # U64Zero
     /\ U64Lt(last.unix_time, last.t0))
        => last.ret.kind = "None"

C4_CodeInRange ==
    (last.op = "totp_raw" /\ last.ret.kind = "Some")
        => last.ret.code \in 0..999999

C4_Witness ==
    /\ last.op = "totp_raw"
    /\ last.ret.kind = "Some"
    /\ last.ret.value = <<32767, 65535>>
    /\ last.ret.code = 483647

\* C5: a null pointer yields the neutral value: 0 from totp_raw_c and
\* totp_raw_now_c for a null secret, and a null pointer from totp_qr_svg_c
\* when the secret, the config, or a color pointer of the config is null.
C5_NullIsNeutral ==
    /\ (last.op \in {"totp_raw_c", "totp_raw_now_c"} /\ last.secret.null)
          => (last.ret.kind = "Return" /\ last.ret.value = 0)
    /\ (/\ last.op = "totp_qr_svg_c"
        /\ \/ last.secret.null
           \/ last.config.null
           \/ last.config.dark_color.null
           \/ last.config.light_color.null)
          => last.ret.kind = "Null"

\* C6: when the URL fits no QR symbol, totp_qr_svg reports an error and
\* totp_qr_svg_c returns the null pointer.
C6_TooLongIsFailure ==
    /\ (last.op = "totp_qr_svg" /\ last.secret = LongSecret)
          => last.ret.kind = "Err"
    /\ (/\ last.op = "totp_qr_svg_c"
        /\ ~last.config.null
        /\ ~last.config.dark_color.null
        /\ ~last.config.light_color.null
        /\ last.secret = CStrPtr(LongSecret))
          => last.ret.kind = "Null"

\* C7: in totp_qr_svg_c a version field v in 1..5 selects version v and any
\* other value version 1; ec_level 0..3 selects L, M, Q, H and any other
\* value M; and the symbol is built with that version and level.
C7_VersionAndLevelUsed ==
    (last.op = "totp_qr_svg_c" /\ last.ret.kind = "NonNull")
        => /\ last.ret.qr_config.version =
                 (IF last.config.version \in 1..5
                  THEN Normal(last.config.version) ELSE Normal(1))
           /\ last.ret.qr_config.ec_level =
                 (CASE last.config.ec_level = 0 -> "L"
                    [] last.config.ec_level = 1 -> "M"
                    [] last.config.ec_level = 2 -> "Q"
                    [] last.config.ec_level = 3 -> "H"
                    [] OTHER -> "M")
           /\ last.ret.svg.symbol.version = last.ret.qr_config.version
           /\ last.ret.svg.symbol.ec_level = last.ret.qr_config.ec_level

\* Two calls with the known secret, epoch start 0 and the same time, the
\* first with step 30 and the second with step 60.
C8_Case ==
    /\ prev.op = "totp_raw"
    /\ last.op = "totp_raw"
    /\ prev.secret = KnownSecret
    /\ last.secret = KnownSecret
    /\ prev.t0 = U64Zero
    /\ last.t0 = U64Zero
    /\ prev.unix_time = last.unix_time
    /\ prev.step = U64Of(30)
    /\ last.step = U64Of(60)

\* C8 as claimed: at every time the two calls succeed with different codes.
C8_StepsGiveDifferentCodes ==
    C8_Case => /\ prev.ret.kind = "Some"
               /\ last.ret.kind = "Some"
               /\ prev.ret.code # last.ret.code

\* C8 as amended: the two calls succeed; at a time t with
\* floor(t / 30) = floor(t / 60) (every t < 30) they return the same code,
\* and two different codes come only from two different counters.
C8_StepsGiveCodes ==
    C8_Case =>
       /\ prev.ret.kind = "Some"
       /\ last.ret.kind = "Some"
       /\ (NatOf(last.unix_time) \div 30 = NatOf(last.unix_time) \div 60)
             => prev.ret.code = last.ret.code
       /\ prev.ret.code # last.ret.code
             => prev.ret.counter_bytes # last.ret.counter_bytes

C8_Witness ==
    /\ C8_Case
    /\ last.unix_time = U64Of(30)
    /\ prev.ret.kind = "Some"
    /\ last.ret.kind = "Some"
    /\ prev.ret.code # last.ret.code

\* C9: for every digest the offset is in 0..15, the 4-byte window lies
\* inside the 20 bytes (the slice does not panic), and the assembled value
\* is in 0..2^31-1.
C9_TruncationInBounds ==
    (last.op = "totp_raw" /\ last.ret.hash # <<>>)
        => /\ Len(last.ret.hash) = 20
           /\ last.ret.offset \in 0..15
           /\ last.ret.offset + 4 <= Len(last.ret.hash)
           /\ last.ret.kind = "Some"
           /\ last.ret.value[1] \in 0..(HalfLimb - 1)
           /\ last.ret.value[2] \in 0..(Limb - 1)

C9_Witness ==
    /\ last.op = "totp_raw"
    /\ last.ret.kind = "Some"
    /\ last.ret.offset = 15
    /\ last.ret.hash[16] = 255
    /\ last.ret.hash[20] = 255
    /\ last.ret.value = <<32767, 65535>>

\* Two calls with the same secret, step and epoch start, at times not before
\* the epoch start that fall in the same step window.
C10_Case ==
    /\ prev.op = "totp_raw"
    /\ last.op = "totp_raw"
    /\ prev.secret = last.secret
    /\ prev.step = last.step
    /\ prev.t0 = last.t0
    /\ ~U64Lt(prev.unix_time, prev.t0)
    /\ ~U64Lt(last.unix_time, last.t0)
    /\ WindowOf(prev) = WindowOf(last)

\* C10: two such calls hand the MAC the same counter, the 8 big-endian bytes
\* of the window number, and return the same code.
C10_SameWindowSameCode ==
    C10_Case =>
       /\ prev.ret.counter_bytes = BigEndian8(WindowOf(prev))
       /\ last.ret.counter_bytes = prev.ret.counter_bytes
       /\ last.ret.kind = "Some"
       /\ last.ret = prev.ret

C10_Witness ==
    /\ C10_Case
    /\ prev.unix_time # last.unix_time
    /\ prev.t0 = U64Of(1)
    /\ last.ret.kind = "Some"
    /\ last.ret.code = prev.ret.code

====
